---------------------------- MODULE Spec2Model ----------------------------
(***************************************************************************)
(* MediaShuffler (src/MediaShuffler.py): a media catalog kept in two       *)
(* SQLite tables, a scanner that reconciles the catalog with a directory,  *)
(* a command layer that sends one random unsent item, and a background     *)
(* scheduler that hands work to the asyncio event loop.                    *)
(*                                                                         *)
(* What the model takes from outside the source file:                      *)
(*  - datetime.now() is strictly increasing: every SentRecord gets a       *)
(*    later sent_at than the ones before it;                               *)
(*  - there is no real time: a trigger may fire, and a wait may time out,  *)
(*    at any moment, and the event loop may leave a coroutine waiting for  *)
(*    as long as it likes;                                                 *)
(*  - all database work happens on the event loop's thread, so a stretch   *)
(*    of code without an await is one step;                                *)
(*  - the application is built without concurrent updates, so command      *)
(*    handlers run one after the other;                                    *)
(*  - a job's instance is counted from the start of its job function to    *)
(*    its return, which is what max_instances limits;                      *)
(*  - created_at is written and never read, and is left out;              *)
(*  - Path.rename onto a name that exists replaces that file (POSIX); a    *)
(*    rename that raises instead is one of the failing renames;            *)
(*  - apscheduler's CronTrigger takes, for each crontab field, `*` or a    *)
(*    number in the field's range, and for day_of_week a weekday name as   *)
(*    well, with Monday = 0, and raises ValueError for anything else.      *)
(***************************************************************************)
EXTENDS Integers, Sequences, FiniteSets, TLC

(***************************************************************************)
(* Bounds of the model.                                                    *)
(***************************************************************************)
\* timestamps handed out by datetime.now() in one run (caps the sends)
MaxClock == 3
\* retention limit used by the catalog specification, where the catalog is
\* a handful of files: the trigger's OFFSET scaled down so that eviction
\* happens (the source's own value is KeepLimit, used by SpecWindow)
SmallLimit == 1

(***************************************************************************)
(* Program constants.                                                      *)
(***************************************************************************)
\* OFFSET of the keep_1000_records trigger
KeepLimit == 1000

\* MediaScanner.valid_ext
valid_ext == {".jpg", ".png", ".gif", ".webp", ".mp4"}
\* MediaScanner.sent_suffix
sent_suffix == "_Sent"
\* config['blacklist']: substrings that exclude a file name
blacklist == {"tmp"}

(***************************************************************************)
(* File names.  A name is its stem, as the sequence of the pieces it is    *)
(* made of, and its suffix (extension, with the dot, case preserved).      *)
(***************************************************************************)
Name(stem, ext) == [stem |-> stem, ext |-> ext]

\* media files the curator may put into the scan directory
BaseFiles == { Name(<<"a">>, ".jpg"), Name(<<"b">>, ".PNG") }
\* files that lie in the scan directory throughout: one with a suffix that
\* is no media suffix, one with a blacklisted name
OtherFiles == { Name(<<"n">>, ".txt"), Name(<<"tmp">>, ".jpg") }
\* a directory whose name looks like a media file
Dirs == { Name(<<"d">>, ".jpg") }

\* str.lower() on a suffix
Lower(ext) ==
    CASE ext = ".PNG" -> ".png"
      [] ext = ".JPG" -> ".jpg"
      [] ext = ".MP4" -> ".mp4"
      [] OTHER -> ext

\* `b in path.name`
Contains(name, b) == \E i \in DOMAIN name.stem : name.stem[i] = b

\* f"{stem}{sent_suffix}{suffix}"
Renamed(name) == Name(Append(name.stem, sent_suffix), name.ext)

VARIABLES
    fs,              \* regular files present in the scan directory
    media,           \* table media: row i has id i; [path, is_deleted]
    sent_media,      \* table sent_media: set of rows [media_id, sent_at]
    clock,           \* number of timestamps datetime.now() has handed out
    phase,           \* "boot" | "started" (scheduler started) | "polling"
    cmd,             \* the command handler in progress on the event loop
    loop_q,          \* coroutines handed to the event loop, not yet begun
    running,         \* the coroutine the event loop is executing right now
    daily_instances, \* running instances of the daily_maintenance job
    daily_wait,      \* the daily job's thread is blocked in future.result
    rot_instances,   \* running instances of the random_media_send job
    rot_log,         \* history: the last scheduled send_media execution
    sent_log,        \* history: ids transmitted since the last cleanup
    outcome,         \* history: what the call that the last step ended came to
    send_result,     \* history: what the send_media call that the last step
                     \* ended gave its caller: return value and reply text
    cleanup_log,     \* history: the counts cleanup_sent_files logged in the
                     \* last step (line 115)
    setup            \* the SchedulerManager: text_schedules of the
                     \* configuration, and the jobs _setup_jobs registered

catalog_vars == <<fs, media, sent_media, clock, sent_log>>
sched_vars == <<loop_q, running, daily_instances, daily_wait, rot_instances,
                rot_log>>
vars == <<catalog_vars, outcome, send_result, cleanup_log, phase, setup, cmd,
          sched_vars>>

\* Python's None (cursor.fetchone() with no row)
None == 0

\* the text send_media replies with (line 170: a check mark and "sent")
ReplySent == "sent"
\* cleanup_sent_files did not run in the last step
NoCounts == [renamed |-> -1, deleted |-> -1]
\* no send_media call has just ended
NoResult == [returned |-> "-", reply |-> "-"]
\* send_media has no return statement with a value: every path returns None
send_media_returns(replied) ==
    [returned |-> "None", reply |-> IF replied THEN ReplySent ELSE "-"]
\* an exception leaves send_media (no value is returned)
send_media_raises(replied) ==
    [returned |-> "raised", reply |-> IF replied THEN ReplySent ELSE "-"]

(***************************************************************************)
(* Catalog store                                                           *)
(***************************************************************************)
Ids(m) == DOMAIN m
Paths(m) == { m[i].path : i \in Ids(m) }

\* rows of sent_media strictly newer than r
Newer(rows, r) == { q \in rows : q.sent_at > r.sent_at }

\* mutant: ORDER BY sent_at ASC, the trigger keeps the oldest rows
keep_1000_records_Asc(rows, limit) ==
    { r \in rows : Cardinality({ q \in rows : q.sent_at < r.sent_at }) < limit }

\* mutant: the OFFSET one too small
keep_1000_records_OffByOne(rows, limit) ==
    { r \in rows : Cardinality(Newer(rows, r)) < limit - 1 }

\* trigger keep_1000_records: after an insert, delete every row that is
\* past the first `limit` rows in ORDER BY sent_at DESC
keep_1000_records(rows, limit) ==
    { r \in rows : Cardinality(Newer(rows, r)) < limit }

\* BotCommands._update_sent_records: INSERT, then the trigger
update_sent_records(rows, media_id, now, limit) ==
    keep_1000_records(rows \cup {[media_id |-> media_id, sent_at |-> now]}, limit)

\* the rows _get_random_media's query selects from
Sendable(m, rows) ==
    { i \in Ids(m) : ~m[i].is_deleted /\ \A s \in rows : s.media_id # i }

\* mutant: the query without `s.media_id IS NULL`
get_random_media_AnyLive(m, rows) ==
    IF { i \in Ids(m) : ~m[i].is_deleted } = {} THEN {None}
    ELSE { i \in Ids(m) : ~m[i].is_deleted }

\* BotCommands._get_random_media: one of them (ORDER BY RANDOM() LIMIT 1),
\* or None
get_random_media(m, rows) ==
    IF Sendable(m, rows) = {} THEN {None} ELSE Sendable(m, rows)

(***************************************************************************)
(* Scanner                                                                 *)
(***************************************************************************)
\* mutant: the blacklist is not consulted
is_valid_file_NoBlacklist(path, files) ==
    Lower(path.ext) \in valid_ext /\ path \in files

\* MediaScanner._is_valid_file
is_valid_file(path, files) ==
    /\ Lower(path.ext) \in valid_ext
    /\ ~\E b \in blacklist : Contains(path, b)
    /\ path \in files

\* the set _perform_scan collects from rglob('*')
current_files(files) == { p \in files \cup Dirs : is_valid_file(p, files) }

\* every order in which a set can be iterated
Orders(S) ==
    { o \in [1..Cardinality(S) -> S] : \A i, j \in DOMAIN o : o[i] = o[j] => i = j }

\* the INSERT loop of _update_database over `order`; stops at the first
\* path the UNIQUE constraint rejects (sqlite3.IntegrityError)
RECURSIVE InsertAll(_, _)
InsertAll(m, order) ==
    IF order = <<>> THEN [media |-> m, ok |-> TRUE]
    ELSE IF Head(order) \in Paths(m) THEN [media |-> m, ok |-> FALSE]
    ELSE InsertAll(Append(m, [path |-> Head(order), is_deleted |-> FALSE]),
                   Tail(order))

\* mutant: the UPDATE loop runs over the files that are there
update_database_MarksPresent(m, current, order) ==
    LET db_files == { m[i].path : i \in { j \in Ids(m) : ~m[j].is_deleted } }
        ins == InsertAll(m, order)
    IN  IF ~ins.ok THEN ins
        ELSE [media |-> [ i \in Ids(ins.media) |->
                            IF ins.media[i].path \in db_files \cap current
                            THEN [ins.media[i] EXCEPT !.is_deleted = TRUE]
                            ELSE ins.media[i] ],
              ok |-> TRUE]

\* mutant: no UPDATE loop, a row whose file is gone stays as it is
update_database_NoSoftDelete(m, current, order) == InsertAll(m, order)

\* MediaScanner._update_database; get_db commits whatever was executed
update_database(m, current, order) ==
    LET db_files == { m[i].path : i \in { j \in Ids(m) : ~m[j].is_deleted } }
        ins == InsertAll(m, order)
    IN  IF ~ins.ok THEN ins
        ELSE [media |-> [ i \in Ids(ins.media) |->
                            IF ins.media[i].path \in db_files \ current
                            THEN [ins.media[i] EXCEPT !.is_deleted = TRUE]
                            ELSE ins.media[i] ],
              ok |-> TRUE]

\* the rename loop of cleanup_sent_files over the joined paths in `order`;
\* `failing` are the paths whose rename raises
RECURSIVE RenameAll(_, _, _)
RenameAll(files, order, failing) ==
    IF order = <<>> THEN files
    ELSE LET p == Head(order)
         IN  IF p \notin files \/ p \in failing
             THEN RenameAll(files, Tail(order), failing)
             ELSE RenameAll((files \ {p}) \cup {Renamed(p)}, Tail(order), failing)

\* renamed_count of cleanup_sent_files: the renames of the loop that went
\* through (the file was there at its turn, and rename did not raise)
renamed_count(files, order, failing) ==
    Cardinality({ k \in DOMAIN order :
                    /\ order[k] \in RenameAll(files, SubSeq(order, 1, k - 1), failing)
                    /\ order[k] \notin failing })

\* mutant: the paths of all rows that are not deleted, no JOIN
sent_files_AllLive(m, rows) == { m[i].path : i \in { j \in Ids(m) : ~m[j].is_deleted } }

\* paths of media JOIN sent_media
sent_files(m, rows) == { m[s.media_id].path : s \in { r \in rows : r.media_id \in Ids(m) } }

\* mutant: DELETE FROM sent_media only when every rename went through
cleanup_sent_files_IfAllRenamed(files, m, rows, rorder, failing) ==
    [fs |-> RenameAll(files, rorder, failing),
     sent_media |-> IF failing \cap files = {} THEN {} ELSE rows,
     renamed |-> renamed_count(files, rorder, failing),
     deleted |-> IF failing \cap files = {} THEN Cardinality(rows) ELSE 0]

\* MediaScanner.cleanup_sent_files: the rename loop, then DELETE FROM
\* sent_media; the media table is not written
cleanup_sent_files(files, m, rows, rorder, failing) ==
    [fs |-> RenameAll(files, rorder, failing), sent_media |-> {},
     renamed |-> renamed_count(files, rorder, failing),
     deleted |-> Cardinality(rows)]

\* MediaScanner.scan_files: _perform_scan, then cleanup_sent_files unless
\* the scan raised
scan_files(files, m, rows, order, rorder, failing) ==
    LET upd == update_database(m, current_files(files), order)
        cln == cleanup_sent_files(files, upd.media, rows, rorder, failing)
    IN  IF ~upd.ok
        THEN [fs |-> files, media |-> upd.media, sent_media |-> rows, ok |-> FALSE,
              log |-> NoCounts]
        ELSE [fs |-> cln.fs, media |-> upd.media, sent_media |-> cln.sent_media,
              ok |-> TRUE, log |-> [renamed |-> cln.renamed, deleted |-> cln.deleted]]

\* the choices scan_files leaves open: iteration orders and failing renames
ScanOutcomes(files, m, rows) ==
    LET db_files == { m[i].path : i \in { j \in Ids(m) : ~m[j].is_deleted } }
    IN  { scan_files(files, m, rows, o, ro, f) :
            o \in Orders(current_files(files) \ db_files),
            ro \in Orders(sent_files(m, rows)),
            f \in SUBSET sent_files(m, rows) }

(***************************************************************************)
(* Program constants of the scheduler.                                     *)
(***************************************************************************)
\* max_instances of the daily_maintenance job
DailyMaxInstances == 1
\* max_instances of the random_media_send job
RotMaxInstances == 2

\* coroutines that may wait on the event loop at once in SpecSched
MaxQueue == 3
\* calls of _update_sent_records in SpecWindow
MaxInserts == 1003

(***************************************************************************)
(* Schedule strings.  A string is the sequence of its characters; the      *)
(* operators below are the str methods _parse_schedule uses.               *)
(***************************************************************************)
Digits == <<"0", "1", "2", "3", "4", "5", "6", "7", "8", "9">>

\* the value of a digit character
DigitVal(c) == CHOOSE d \in 0..9 : Digits[d + 1] = c

IsDigit(c) == \E d \in 0..9 : Digits[d + 1] = c

\* str.startswith
StartsWith(s, p) == Len(s) >= Len(p) /\ SubSeq(s, 1, Len(p)) = p

\* str.find: the first position of character c, 0 when there is none
Find(s, c) ==
    IF \E i \in DOMAIN s : s[i] = c
    THEN CHOOSE i \in DOMAIN s : s[i] = c /\ \A j \in 1..(i - 1) : s[j] # c
    ELSE 0

\* str.split(c, 1)
split_once(s, c) ==
    IF Find(s, c) = 0 THEN <<s>>
    ELSE <<SubSeq(s, 1, Find(s, c) - 1), SubSeq(s, Find(s, c) + 1, Len(s))>>

\* str.split(c)
RECURSIVE split_all(_, _)
split_all(s, c) ==
    IF Find(s, c) = 0 THEN <<s>>
    ELSE <<SubSeq(s, 1, Find(s, c) - 1)>> \o split_all(SubSeq(s, Find(s, c) + 1, Len(s)), c)

\* str.split(): the runs of characters between blanks
split_ws(s) == SelectSeq(split_all(s, " "), LAMBDA t : t # <<>>)

\* str.strip(), which int() applies to its argument
RECURSIVE strip(_)
strip(s) ==
    IF s = <<>> THEN s
    ELSE IF Head(s) = " " THEN strip(Tail(s))
    ELSE IF s[Len(s)] = " " THEN strip(SubSeq(s, 1, Len(s) - 1))
    ELSE s

\* the number a run of digits denotes
RECURSIVE Value(_)
Value(s) ==
    IF s = <<>> THEN 0
    ELSE 10 * Value(SubSeq(s, 1, Len(s) - 1)) + DigitVal(s[Len(s)])

AllDigits(s) == s # <<>> /\ \A i \in DOMAIN s : IsDigit(s[i])

\* int(str): blanks around it, an optional sign, digits; ok = FALSE is
\* ValueError
int(s) ==
    LET t == strip(s)
        signed == t # <<>> /\ Head(t) \in {"+", "-"}
        body == IF signed THEN Tail(t) ELSE t
    IN  IF ~AllDigits(body) THEN [ok |-> FALSE, val |-> 0]
        ELSE [ok |-> TRUE,
              val |-> IF signed /\ Head(t) = "-" THEN 0 - Value(body) ELSE Value(body)]

\* `hour, minute = map(int, part.split(':'))`: ValueError unless there are
\* two parts and both are numbers
hour_minute(part) ==
    LET parts == split_all(part, ":")
    IN  IF Len(parts) # 2 \/ ~int(parts[1]).ok \/ ~int(parts[2]).ok
        THEN [ok |-> FALSE, hour |-> 0, minute |-> 0]
        ELSE [ok |-> TRUE, hour |-> int(parts[1]).val, minute |-> int(parts[2]).val]

(***************************************************************************)
(* apscheduler's CronTrigger, as far as _parse_schedule uses it: a trigger *)
(* is its five crontab fields, a number or Star (`*`); a field value       *)
(* outside its range, or an expression that is no value of the field,      *)
(* raises ValueError.  Weekdays count from Monday = 0.                     *)
(***************************************************************************)
Star == -1

Weekdays == << <<"m", "o", "n">>, <<"t", "u", "e">>, <<"w", "e", "d">>,
               <<"t", "h", "u">>, <<"f", "r", "i">>, <<"s", "a", "t">>,
               <<"s", "u", "n">> >>

NoTrigger == [ok |-> FALSE, minute |-> Star, hour |-> Star, day |-> Star,
              month |-> Star, day_of_week |-> Star]

Trigger(minute, hour, day, month, day_of_week) ==
    [ok |-> TRUE, minute |-> minute, hour |-> hour, day |-> day,
     month |-> month, day_of_week |-> day_of_week]

\* a field given as a number
NumberField(n, lo, hi) == [ok |-> n \in lo..hi, val |-> n]

\* a field given as an expression: `*`, or a number in the field's range
Field(tok, lo, hi) ==
    IF tok = <<"*">> THEN [ok |-> TRUE, val |-> Star]
    ELSE IF AllDigits(tok) THEN NumberField(Value(tok), lo, hi)
    ELSE [ok |-> FALSE, val |-> Star]

\* the day_of_week field: a weekday name as well
DayOfWeekField(tok) ==
    IF \E d \in 1..7 : Weekdays[d] = tok
    THEN [ok |-> TRUE, val |-> (CHOOSE d \in 1..7 : Weekdays[d] = tok) - 1]
    ELSE Field(tok, 0, 6)

\* CronTrigger(hour=hour, minute=minute)
CronTriggerDaily(hour, minute) ==
    IF NumberField(hour, 0, 23).ok /\ NumberField(minute, 0, 59).ok
    THEN Trigger(minute, hour, Star, Star, Star)
    ELSE NoTrigger

\* CronTrigger(day_of_week=day, hour=hour, minute=minute)
CronTriggerWeekly(day, hour, minute) ==
    IF DayOfWeekField(day).ok /\ NumberField(hour, 0, 23).ok /\ NumberField(minute, 0, 59).ok
    THEN Trigger(minute, hour, Star, Star, DayOfWeekField(day).val)
    ELSE NoTrigger

\* CronTrigger.from_crontab(expr): five blank-separated fields
from_crontab(expr) ==
    LET v == split_ws(expr)
    IN  IF Len(v) # 5 THEN NoTrigger
        ELSE IF /\ Field(v[1], 0, 59).ok /\ Field(v[2], 0, 23).ok
                /\ Field(v[3], 1, 31).ok /\ Field(v[4], 1, 12).ok
                /\ DayOfWeekField(v[5]).ok
        THEN Trigger(Field(v[1], 0, 59).val, Field(v[2], 0, 23).val,
                     Field(v[3], 1, 31).val, Field(v[4], 1, 12).val,
                     DayOfWeekField(v[5]).val)
        ELSE NoTrigger

(***************************************************************************)
(* SchedulerManager._parse_schedule.  The result is the trigger, or        *)
(* NoTrigger when the call raises (every raise in it is a ValueError).     *)
(***************************************************************************)
DayPrefix == <<"d", "a", "y", " ">>
WeekPrefix == <<"w", "e", "e", "k", " ">>
CronPrefix == <<"c", "r", "o", "n", " ">>

\* mutant: the days counted as crontab counts them, 0 = Sunday
day_map_get_SundayFirst(day) ==
    IF Len(day) = 1 /\ IsDigit(day[1]) /\ DigitVal(day[1]) <= 6
    THEN Weekdays[((DigitVal(day[1]) + 6) % 7) + 1]
    ELSE day

\* day_map.get(day, day)
day_map_get(day) ==
    IF Len(day) = 1 /\ IsDigit(day[1]) /\ DigitVal(day[1]) <= 6
    THEN Weekdays[DigitVal(day[1]) + 1]
    ELSE day

\* the `day ` branch
parse_day(schedule_str) ==
    LET time_part == split_once(schedule_str, " ")[2]
    IN  IF ~hour_minute(time_part).ok THEN NoTrigger
        ELSE CronTriggerDaily(hour_minute(time_part).hour, hour_minute(time_part).minute)

\* the `week ` branch
parse_week(schedule_str) ==
    LET parts == split_ws(schedule_str)
    IN  IF Len(parts) # 3 THEN NoTrigger
        ELSE IF ~hour_minute(parts[3]).ok THEN NoTrigger
        ELSE CronTriggerWeekly(day_map_get(parts[2]), hour_minute(parts[3]).hour,
                               hour_minute(parts[3]).minute)

\* the `cron ` branch
parse_cron(schedule_str) == from_crontab(split_once(schedule_str, " ")[2])

parse_schedule(schedule_str) ==
    IF StartsWith(schedule_str, DayPrefix) THEN parse_day(schedule_str)
    ELSE IF StartsWith(schedule_str, WeekPrefix) THEN parse_week(schedule_str)
    ELSE IF StartsWith(schedule_str, CronPrefix) THEN parse_cron(schedule_str)
    ELSE NoTrigger

(***************************************************************************)
(* SchedulerManager._setup_jobs.  The configuration's text_schedules is a  *)
(* sequence of entries; an entry says which of its keys are there and      *)
(* holds its schedule string.                                              *)
(***************************************************************************)
Entry(has_name, has_schedule, schedule, has_content) ==
    [has_name |-> has_name, has_schedule |-> has_schedule,
     schedule |-> schedule, has_content |-> has_content]

\* config['daily_scan_time'], which ConfigValidator has accepted
daily_scan_time == <<"0", "3", ":", "0", "0">>

\* trigger='interval': no crontab trigger; its period is left out
IntervalTrigger == Trigger(Star, Star, Star, Star, Star)

Job(kind, entry, trigger, max_instances) ==
    [kind |-> kind, entry |-> entry, trigger |-> trigger,
     max_instances |-> max_instances]

\* SchedulerManager before _setup_jobs, with text_schedules = config
NewSetup(config) == [config |-> config, pc |-> "new", jobs |-> <<>>, skipped |-> {}]

add_daily_maintenance_job(st) ==
    [st EXCEPT !.jobs = Append(@, Job("daily_maintenance", 0,
                                       CronTriggerDaily(hour_minute(daily_scan_time).hour,
                                                        hour_minute(daily_scan_time).minute),
                                       1))]

add_media_send_job(st) ==
    [st EXCEPT !.jobs = Append(@, Job("random_media_send", 0, IntervalTrigger, 2))]

\* mutant: no try/except around the registration
add_single_text_job_NoTry(st, k) ==
    LET e == st.config[k]
    IN  IF e.has_schedule /\ parse_schedule(e.schedule).ok /\ e.has_content /\ e.has_name
        THEN [st EXCEPT !.jobs = Append(@, Job("text_schedule", k,
                                              parse_schedule(e.schedule), 1))]
        ELSE [st EXCEPT !.pc = "aborted"]

\* _add_single_text_job for entry k: a KeyError for a missing key or the
\* parser's ValueError is caught and logged with the entry's name; without
\* a name the handler itself raises KeyError, which nothing catches
add_single_text_job(st, k) ==
    LET e == st.config[k]
    IN  IF e.has_schedule /\ parse_schedule(e.schedule).ok /\ e.has_content /\ e.has_name
        THEN [st EXCEPT !.jobs = Append(@, Job("text_schedule", k,
                                              parse_schedule(e.schedule), 1))]
        ELSE IF e.has_name THEN [st EXCEPT !.skipped = @ \cup {k}]
        ELSE [st EXCEPT !.pc = "aborted"]

\* _add_text_schedules from entry k on
RECURSIVE add_text_schedules(_, _)
add_text_schedules(st, k) ==
    IF k > Len(st.config) THEN [st EXCEPT !.pc = "done"]
    ELSE IF add_single_text_job(st, k).pc = "aborted" THEN add_single_text_job(st, k)
    ELSE add_text_schedules(add_single_text_job(st, k), k + 1)

setup_jobs(st) ==
    add_text_schedules(add_media_send_job(add_daily_maintenance_job(st)), 1)

(***************************************************************************)
(* Initial state: the tables exist and are empty (CREATE TABLE IF NOT      *)
(* EXISTS on a fresh media.db); main() has not run yet.                    *)
(***************************************************************************)
IdleCmd == [pc |-> "idle", media |-> None]

\* the configuration has no text_schedules unless said otherwise
InitCatalog(files, configs) ==
    /\ fs \in { f \cup OtherFiles : f \in files }
    /\ setup \in { NewSetup(c) : c \in configs }
    /\ media = <<>>
    /\ sent_media = {}
    /\ clock = 0
    /\ phase = "boot"
    /\ cmd = IdleCmd
    /\ loop_q = <<>>
    /\ running = "none"
    /\ daily_instances = 0
    /\ daily_wait = FALSE
    /\ rot_instances = 0
    /\ rot_log = [ran |-> FALSE, picked |-> None, replied |-> FALSE,
                  transmitted |-> FALSE]
    /\ sent_log = <<>>
    /\ outcome = "none"
    /\ send_result = NoResult
    /\ cleanup_log = NoCounts

InitWith(files) == InitCatalog(files, {<<>>})

Init == InitWith(SUBSET BaseFiles)

(***************************************************************************)
(* One call of scan_files, as a step: any of its outcomes.                 *)
(***************************************************************************)
ScanStep ==
    \E res \in ScanOutcomes(fs, media, sent_media) :
        /\ fs' = res.fs
        /\ media' = res.media
        /\ sent_media' = res.sent_media
        /\ sent_log' = IF res.ok THEN <<>> ELSE sent_log
        /\ outcome' = IF res.ok THEN "scan_ok" ELSE "scan_raised"
        /\ send_result' = NoResult
        /\ cleanup_log' = res.log
        /\ UNCHANGED clock

\* a step that ends no call
NoOutcome == outcome' = "none" /\ send_result' = NoResult /\ cleanup_log' = NoCounts

(***************************************************************************)
(* main()                                                                  *)
(***************************************************************************)
\* scanner.scan_files(), the handlers, SchedulerManager(...) with its
\* _setup_jobs, scheduler.start(); an exception on the way leaves main()
Startup ==
    /\ phase = "boot"
    /\ ScanStep
    /\ setup' = IF outcome' = "scan_ok" THEN setup_jobs(setup) ELSE setup
    /\ phase' = IF outcome' = "scan_ok" /\ setup'.pc = "done" THEN "started"
                ELSE "crashed"
    /\ UNCHANGED <<cmd, sched_vars>>

\* application.run_polling(): the event loop runs from here on
LoopStart ==
    /\ phase = "started"
    /\ phase' = "polling"
    /\ NoOutcome
    /\ UNCHANGED <<catalog_vars, setup, cmd, sched_vars>>

\* the event loop can take up a coroutine or resume a handler
LoopFree == phase = "polling" /\ running = "none"

(***************************************************************************)
(* The curator's side of the scan directory.                               *)
(***************************************************************************)
FileAppears ==
    /\ \E f \in BaseFiles \ fs : fs' = fs \cup {f}
    /\ NoOutcome
    /\ UNCHANGED <<media, sent_media, clock, sent_log, phase, setup, cmd, sched_vars>>

FileVanishes ==
    /\ \E f \in fs \ OtherFiles : fs' = fs \ {f}
    /\ NoOutcome
    /\ UNCHANGED <<media, sent_media, clock, sent_log, phase, setup, cmd, sched_vars>>

(***************************************************************************)
(* BotCommands: the handlers of /set and /redb.  The application handles   *)
(* one update at a time, so one handler is in progress at most.            *)
(***************************************************************************)
\* send_media, manual=True, up to `await update.message.reply_text`
CmdSendMedia ==
    /\ LoopFree
    /\ cmd.pc = "idle"
    /\ clock < MaxClock
    /\ \E is_admin \in BOOLEAN :
         IF ~is_admin
         THEN /\ cmd' = IdleCmd /\ outcome' = "denied"
              /\ cleanup_log' = NoCounts /\ send_result' = send_media_returns(FALSE)
         ELSE /\ \E m \in get_random_media(media, sent_media) :
                   cmd' = [pc |-> "replying", media |-> m]
              /\ NoOutcome
    /\ UNCHANGED <<catalog_vars, phase, setup, sched_vars>>

\* send_media from the reply to `await self.app.bot.send_video/send_photo`
\* in _send_to_channel; open(full_path) raises when the file is gone
CmdReplied ==
    /\ LoopFree
    /\ cmd.pc = "replying"
    /\ \E replied \in BOOLEAN :
         IF ~replied
         THEN /\ cmd' = IdleCmd /\ outcome' = "reply_error"
              /\ cleanup_log' = NoCounts /\ send_result' = send_media_raises(FALSE)
         ELSE IF cmd.media = None
         THEN /\ cmd' = IdleCmd /\ outcome' = "empty"
              /\ cleanup_log' = NoCounts /\ send_result' = send_media_returns(TRUE)
         ELSE IF media[cmd.media].path \notin fs
         THEN /\ cmd' = IdleCmd /\ outcome' = "send_failed"
              /\ cleanup_log' = NoCounts /\ send_result' = send_media_returns(TRUE)
         ELSE cmd' = [cmd EXCEPT !.pc = "sending"] /\ NoOutcome
    /\ UNCHANGED <<catalog_vars, phase, setup, sched_vars>>

\* mutant: the SentRecord is written whatever _send_to_channel returned
send_media_finish_Always(success, rows, media_id, now, limit) ==
    update_sent_records(rows, media_id, now, limit)

\* what send_media does with the outcome of _send_to_channel
send_media_finish(success, rows, media_id, now, limit) ==
    IF success THEN update_sent_records(rows, media_id, now, limit) ELSE rows

\* send_media from the channel client's answer to the end; `limit` is the
\* OFFSET of the trigger
ChannelDone(limit) ==
    /\ LoopFree
    /\ cmd.pc = "sending"
    /\ \E success \in BOOLEAN :
         /\ sent_media' = send_media_finish(success, sent_media, cmd.media,
                                            clock + 1, limit)
         /\ clock' = IF success THEN clock + 1 ELSE clock
         /\ sent_log' = IF success THEN Append(sent_log, cmd.media) ELSE sent_log
         /\ outcome' = IF success THEN "sent" ELSE "send_failed"
    /\ cleanup_log' = NoCounts /\ send_result' = send_media_returns(TRUE)
    /\ cmd' = IdleCmd
    /\ UNCHANGED <<fs, media, phase, setup, sched_vars>>

\* the same with the scaled limit of the catalog specification
CmdChannelDone == ChannelDone(SmallLimit)

\* the same with the trigger's own limit
CmdChannelDoneKeep == ChannelDone(KeepLimit)

\* rescan
CmdRescan ==
    /\ LoopFree
    /\ cmd.pc = "idle"
    /\ \E is_admin \in BOOLEAN :
         IF ~is_admin
         THEN /\ outcome' = "denied" /\ send_result' = NoResult
              /\ cleanup_log' = NoCounts /\ UNCHANGED catalog_vars
         ELSE ScanStep
    /\ UNCHANGED <<phase, setup, cmd, sched_vars>>

(***************************************************************************)
(* SchedulerManager: the jobs run on the scheduler's thread pool and hand  *)
(* coroutines to the event loop with asyncio.run_coroutine_threadsafe.     *)
(* A job's trigger may fire at any moment once the scheduler has started;  *)
(* `cap` bounds the coroutines waiting on the loop.                        *)
(***************************************************************************)
SchedulerStarted == phase \in {"started", "polling"}
\* `self.loop and self.loop.is_running()`
LoopIsRunning == phase = "polling"

\* the daily coroutines the loop still holds (waiting or executing)
DailyOnLoop ==
    Len(SelectSeq(loop_q, LAMBDA c : c = "daily")) + (IF running = "daily" THEN 1 ELSE 0)
\* the scheduled send_media coroutines the loop still holds
SendsOnLoop == Len(SelectSeq(loop_q, LAMBDA c : c = "send"))

\* mutants: the instance count compared with <=
daily_may_run_OffByOne(instances) == instances <= DailyMaxInstances

rot_may_run_OffByOne(instances) == instances <= RotMaxInstances

\* add_job(..., max_instances=1): whether a firing of daily_maintenance
\* may start an instance
daily_may_run(instances) == instances < DailyMaxInstances

\* add_job(..., max_instances=2): the same for random_media_send
rot_may_run(instances) == instances < RotMaxInstances

\* the daily trigger fires: skipped at max_instances, else
\* _execute_daily_tasks submits _async_daily_tasks and blocks on its result
DailyFire(cap) ==
    /\ SchedulerStarted
    /\ IF ~daily_may_run(daily_instances) \/ ~LoopIsRunning
       THEN UNCHANGED <<loop_q, daily_instances, daily_wait>>
       ELSE /\ Len(loop_q) < cap
            /\ loop_q' = Append(loop_q, "daily")
            /\ daily_instances' = daily_instances + 1
            /\ daily_wait' = TRUE
    /\ NoOutcome
    /\ UNCHANGED <<catalog_vars, phase, setup, cmd, running, rot_instances, rot_log>>

\* what the end of the job function does to the job's instance count: it
\* returns (or raises into the scheduler) and the instance is over
release_instance(instances) == instances - 1

\* mutant: the timeout cancels the future, and with it the coroutine
DailyTimeout_Cancels ==
    /\ daily_wait
    /\ daily_wait' = FALSE
    /\ daily_instances' = release_instance(daily_instances)
    /\ IF running = "daily" /\ \A i \in DOMAIN loop_q : loop_q[i] # "daily"
       THEN running' = "none" /\ UNCHANGED loop_q
       ELSE /\ UNCHANGED running
            /\ \E k \in DOMAIN loop_q :
                 /\ loop_q[k] = "daily"
                 /\ \A i \in DOMAIN loop_q : i > k => loop_q[i] # "daily"
                 /\ loop_q' = SubSeq(loop_q, 1, k - 1) \o SubSeq(loop_q, k + 1, Len(loop_q))
    /\ NoOutcome
    /\ UNCHANGED <<catalog_vars, phase, setup, cmd, rot_instances, rot_log>>

\* mutant: the instance stays counted until its coroutine has finished
DailyTimeout_KeepsInstance ==
    /\ daily_wait
    /\ daily_wait' = FALSE
    /\ UNCHANGED daily_instances
    /\ NoOutcome
    /\ UNCHANGED <<catalog_vars, phase, setup, cmd, loop_q, running, rot_instances,
                   rot_log>>

\* future.result(timeout=300) gives up: the job function ends, the
\* coroutine stays where it is on the loop
DailyTimeout ==
    /\ daily_wait
    /\ daily_wait' = FALSE
    /\ daily_instances' = release_instance(daily_instances)
    /\ NoOutcome
    /\ UNCHANGED <<catalog_vars, phase, setup, cmd, loop_q, running, rot_instances,
                   rot_log>>

\* the loop begins the next coroutine, a _async_daily_tasks
ExecDailyBegin ==
    /\ LoopFree
    /\ loop_q # <<>> /\ Head(loop_q) = "daily"
    /\ loop_q' = Tail(loop_q)
    /\ running' = "daily"
    /\ NoOutcome
    /\ UNCHANGED <<catalog_vars, phase, setup, cmd, daily_instances, daily_wait,
                   rot_instances, rot_log>>

\* the caller still blocked in future.result waits for the coroutine it
\* submitted, the youngest daily one
IsAwaited == daily_wait /\ \A i \in DOMAIN loop_q : loop_q[i] # "daily"

\* _async_daily_tasks runs scan_files to its end (there is no await in it);
\* its future is set and wakes the caller, if that one still waits
ExecDailyEnd ==
    /\ running = "daily"
    /\ ScanStep
    /\ running' = "none"
    /\ IF IsAwaited
       THEN /\ daily_wait' = FALSE
            /\ daily_instances' = release_instance(daily_instances)
       ELSE UNCHANGED <<daily_wait, daily_instances>>
    /\ UNCHANGED <<phase, setup, cmd, loop_q, rot_instances, rot_log>>

\* the interval trigger fires: skipped at max_instances, else an instance
\* of _wrap_send_media starts on the thread pool
RotFire ==
    /\ SchedulerStarted
    /\ IF ~rot_may_run(rot_instances)
       THEN UNCHANGED rot_instances
       ELSE rot_instances' = rot_instances + 1
    /\ NoOutcome
    /\ UNCHANGED <<catalog_vars, phase, setup, cmd, loop_q, running, daily_instances,
                   daily_wait, rot_log>>

\* _wrap_send_media: submits send_media(None, None, manual=False) when the
\* loop runs, and returns without waiting
WrapSendMedia(cap) ==
    /\ rot_instances > 0
    /\ IF LoopIsRunning
       THEN /\ Len(loop_q) < cap
            /\ loop_q' = Append(loop_q, "send")
       ELSE UNCHANGED loop_q
    /\ rot_instances' = release_instance(rot_instances)
    /\ NoOutcome
    /\ UNCHANGED <<catalog_vars, phase, setup, cmd, running, daily_instances,
                   daily_wait, rot_log>>

\* mutant: the reply goes through whatever `update` is
reply_to_update_Always(update_is_none) == TRUE

\* `await update.message.reply_text(...)` in send_media: with update = None,
\* as the job passes it, `update.message` raises AttributeError (FALSE: the
\* coroutine does not get past this line)
reply_to_update(update_is_none) == ~update_is_none

\* the loop runs the next coroutine, a scheduled send_media, to its end:
\* the pick, then the reply, which raises; past the reply the call would go
\* on as the command does, to _send_to_channel and _update_sent_records
ExecSend ==
    /\ LoopFree
    /\ loop_q # <<>> /\ Head(loop_q) = "send"
    /\ loop_q' = Tail(loop_q)
    /\ \E m \in get_random_media(media, sent_media) :
         IF ~reply_to_update(TRUE)
         THEN /\ rot_log' = [ran |-> TRUE, picked |-> m, replied |-> FALSE,
                             transmitted |-> FALSE]
              /\ outcome' = "job_raised"
              /\ cleanup_log' = NoCounts /\ send_result' = send_media_raises(FALSE)
              /\ UNCHANGED catalog_vars
         ELSE IF m = None \/ media[m].path \notin fs
         THEN /\ rot_log' = [ran |-> TRUE, picked |-> m, replied |-> TRUE,
                             transmitted |-> FALSE]
              /\ outcome' = IF m = None THEN "empty" ELSE "send_failed"
              /\ cleanup_log' = NoCounts /\ send_result' = send_media_returns(TRUE)
              /\ UNCHANGED catalog_vars
         ELSE /\ clock < MaxClock
              /\ \E success \in BOOLEAN :
                   /\ rot_log' = [ran |-> TRUE, picked |-> m, replied |-> TRUE,
                                   transmitted |-> success]
                   /\ sent_media' = send_media_finish(success, sent_media, m,
                                                      clock + 1, KeepLimit)
                   /\ clock' = IF success THEN clock + 1 ELSE clock
                   /\ sent_log' = IF success THEN Append(sent_log, m) ELSE sent_log
                   /\ outcome' = IF success THEN "sent" ELSE "send_failed"
              /\ cleanup_log' = NoCounts /\ send_result' = send_media_returns(TRUE)
              /\ UNCHANGED <<fs, media>>
    /\ UNCHANGED <<phase, setup, cmd, running, daily_instances, daily_wait,
                   rot_instances>>

(***************************************************************************)
(* Spec: the catalog, the command layer and the daily maintenance that     *)
(* runs between a handler's awaits.  One pending daily coroutine is enough *)
(* for every interleaving of a scan with a handler.                        *)
(***************************************************************************)
Next ==
    \/ Startup
    \/ LoopStart
    \/ FileAppears
    \/ FileVanishes
    \/ CmdSendMedia
    \/ CmdReplied
    \/ CmdChannelDone
    \/ CmdRescan
    \/ DailyFire(1)
    \/ ExecDailyBegin
    \/ ExecDailyEnd

Spec == Init /\ [][Next]_vars

(***************************************************************************)
(* SpecKeep: the catalog and the command layer with the trigger's own      *)
(* limit, which a catalog of a few files never reaches: every SentRecord   *)
(* stays until the next cleanup.                                           *)
(***************************************************************************)
InitKeep == InitWith(SUBSET BaseFiles)

NextKeep ==
    \/ Startup
    \/ LoopStart
    \/ FileAppears
    \/ FileVanishes
    \/ CmdSendMedia
    \/ CmdReplied
    \/ CmdChannelDoneKeep
    \/ CmdRescan

SpecKeep == InitKeep /\ [][NextKeep]_vars

(***************************************************************************)
(* SpecCleanup: SpecKeep, and cleanup_sent_files called on its own as      *)
(* well (the program itself calls it at the end of scan_files only).       *)
(***************************************************************************)
\* scanner.cleanup_sent_files(), called on the loop's thread; the outcome
\* says whether the step before was a cleanup_sent_files call too
CleanupCall ==
    /\ LoopFree
    /\ cmd.pc = "idle"
    /\ \E rorder \in Orders(sent_files(media, sent_media)),
          failing \in SUBSET sent_files(media, sent_media) :
         LET cln == cleanup_sent_files(fs, media, sent_media, rorder, failing)
         IN  /\ fs' = cln.fs
             /\ sent_media' = cln.sent_media
             /\ cleanup_log' = [renamed |-> cln.renamed, deleted |-> cln.deleted]
    /\ outcome' = IF outcome \in {"cleanup_ok", "cleanup_again"}
                  THEN "cleanup_again" ELSE "cleanup_ok"
    /\ send_result' = NoResult
    /\ sent_log' = <<>>
    /\ UNCHANGED <<media, clock, phase, setup, cmd, sched_vars>>

InitCleanup == InitWith(SUBSET BaseFiles)

NextCleanup ==
    \/ Startup
    \/ LoopStart
    \/ FileAppears
    \/ FileVanishes
    \/ CmdSendMedia
    \/ CmdReplied
    \/ CmdChannelDoneKeep
    \/ CmdRescan
    \/ CleanupCall

SpecCleanup == InitCleanup /\ [][NextCleanup]_vars

(***************************************************************************)
(* Schedule strings of the configurations the startup specifications draw  *)
(* from: written as the grammar writes them, and strings outside it.       *)
(***************************************************************************)
\* HH or MM
TwoDigit(n) == <<Digits[(n \div 10) + 1], Digits[(n % 10) + 1]>>

TimeText(h, m) == TwoDigit(h) \o <<":">> \o TwoDigit(m)

\* a crontab field: `*`, or the number in decimal
FieldText(v) ==
    IF v = Star THEN <<"*">>
    ELSE IF v < 10 THEN <<Digits[v + 1]>> ELSE TwoDigit(v)

\* `day HH:MM`
DayText(h, m) == DayPrefix \o TimeText(h, m)

\* `week D HH:MM`
WeekText(d, h, m) == WeekPrefix \o <<Digits[d + 1], " ">> \o TimeText(h, m)

\* `cron <five fields>`
CronText(mi, h, d, mo, dw) ==
    CronPrefix \o FieldText(mi) \o <<" ">> \o FieldText(h) \o <<" ">> \o FieldText(d)
               \o <<" ">> \o FieldText(mo) \o <<" ">> \o FieldText(dw)

\* strings of the three forms
GrammarSamples ==
    { DayText(9, 30), DayText(0, 0), DayText(23, 59),
      WeekText(0, 8, 0), WeekText(6, 8, 0), WeekText(3, 23, 59),
      CronText(0, 12, Star, Star, Star), CronText(30, 9, 1, 12, Star) }

\* strings of none of the three forms: a bad time, a wrong number of
\* fields, a day number past 6, an unknown prefix
BadSamples ==
    { DayPrefix \o <<"0", "9", "3", "0">>,                    \* day 0930
      DayText(25, 0),                                         \* day 25:00
      DayText(9, 60),                                         \* day 09:60
      DayPrefix \o <<"x", "x", ":", "3", "0">>,               \* day xx:30
      DayPrefix \o <<"0", "9", ":", "3", "0", ":", "0", "0">>, \* day 09:30:00
      WeekPrefix \o <<"0">>,                                  \* week 0
      WeekText(0, 8, 0) \o <<" ", "x">>,                      \* week 0 08:00 x
      WeekText(7, 8, 0),                                      \* week 7 08:00
      WeekText(0, 24, 0),                                     \* week 0 24:00
      CronPrefix \o <<"0", " ", "1", "2", " ", "*", " ", "*">>, \* cron 0 12 * *
      CronText(61, 12, Star, Star, Star),                     \* cron 61 12 * * *
      <<"b", "o", "g", "u", "s">>,                            \* bogus
      <<"d", "a", "y">>,                                      \* day
      <<"d", "a", "i", "l", "y", " ">> \o TimeText(9, 30),    \* daily 09:30
      <<>> }

\* strings of none of the three forms either: a weekday by its name, a
\* time not written with two digits each, a second blank
OffGrammarSamples ==
    { WeekPrefix \o <<"m", "o", "n", " ">> \o TimeText(8, 0),  \* week mon 08:00
      DayPrefix \o <<"9", ":", "5">>,                         \* day 9:5
      DayPrefix \o <<" ">> \o TimeText(9, 30) }               \* day  09:30

ScheduleSamples == GrammarSamples \cup BadSamples \cup OffGrammarSamples

\* the sequences over S of length up to n
SeqsUpTo(S, n) == UNION { [1..k -> S] : k \in 0..n }

(***************************************************************************)
(* SpecSetup: startup over configurations of up to MaxSchedules text       *)
(* schedules, with entries that lack a key or hold a malformed string.     *)
(***************************************************************************)
MaxSchedules == 3

SetupEntries ==
    { Entry(TRUE, TRUE, DayText(9, 30), TRUE),
      Entry(TRUE, TRUE, WeekText(0, 8, 0), TRUE),
      Entry(TRUE, TRUE, <<"b", "o", "g", "u", "s">>, TRUE),
      Entry(TRUE, TRUE, DayText(25, 0), TRUE),
      Entry(TRUE, FALSE, <<>>, TRUE),
      Entry(TRUE, TRUE, DayText(9, 30), FALSE),
      Entry(FALSE, TRUE, DayText(9, 30), TRUE),
      Entry(FALSE, TRUE, <<"b", "o", "g", "u", "s">>, TRUE) }

InitSetup == InitCatalog({BaseFiles}, SeqsUpTo(SetupEntries, MaxSchedules))

NextSetup ==
    \/ Startup
    \/ LoopStart

SpecSetup == InitSetup /\ [][NextSetup]_vars

(***************************************************************************)
(* SpecParse: startup over configurations of up to MaxParsed text          *)
(* schedules whose entries have every key, over all the sample strings.    *)
(***************************************************************************)
MaxParsed == 2

InitParse ==
    InitCatalog({BaseFiles},
                SeqsUpTo({ Entry(TRUE, TRUE, s, TRUE) : s \in ScheduleSamples }, MaxParsed))

NextParse ==
    \/ Startup
    \/ LoopStart

SpecParse == InitParse /\ [][NextParse]_vars

(***************************************************************************)
(* SpecSched: the scheduler, its thread pool and the event loop, over a    *)
(* scan directory that holds the two media files.                          *)
(***************************************************************************)
InitSched == InitWith({BaseFiles})

NextSched ==
    \/ Startup
    \/ LoopStart
    \/ DailyFire(MaxQueue)
    \/ DailyTimeout
    \/ ExecDailyBegin
    \/ ExecDailyEnd
    \/ RotFire
    \/ WrapSendMedia(MaxQueue)
    \/ ExecSend

SpecSched == InitSched /\ [][NextSched]_vars

(***************************************************************************)
(* SpecOverlap: the jobs and the command layer together, over a scan       *)
(* directory that starts with the two media files: scheduled send_media    *)
(* coroutines and daily scans run while a manual send_media is suspended   *)
(* at an await.                                                            *)
(***************************************************************************)
InitOverlap == InitWith({BaseFiles})

NextOverlap ==
    \/ Startup
    \/ LoopStart
    \/ CmdSendMedia
    \/ CmdReplied
    \/ CmdChannelDoneKeep
    \/ CmdRescan
    \/ RotFire
    \/ WrapSendMedia(MaxQueue)
    \/ ExecSend
    \/ DailyFire(MaxQueue)
    \/ ExecDailyBegin
    \/ ExecDailyEnd

SpecOverlap == InitOverlap /\ [][NextOverlap]_vars

(***************************************************************************)
(* SpecWindow: _update_sent_records called over and over on a table that   *)
(* starts empty, with the trigger's own limit.                             *)
(***************************************************************************)
\* media ids the calls pass
WindowIds == {1}

RecordSent ==
    /\ clock < MaxInserts
    /\ \E media_id \in WindowIds :
         sent_media' = update_sent_records(sent_media, media_id, clock + 1, KeepLimit)
    /\ clock' = clock + 1
    /\ UNCHANGED <<fs, media, sent_log, outcome, send_result, cleanup_log, phase, setup,
                   cmd, sched_vars>>

InitWindow == InitWith({{}})

NextWindow == RecordSent

SpecWindow == InitWindow /\ [][NextWindow]_vars


(***************************************************************************)
(* The claims.                                                             *)
(***************************************************************************)
Min(a, b) == IF a < b THEN a ELSE b

\* an item the Selector can return: not soft-deleted, no SentRecord
SelectableIn(i, m, rows) ==
    /\ i \in DOMAIN m
    /\ ~m[i].is_deleted
    /\ ~\E s \in rows : s.media_id = i

Selectable(i) == SelectableIn(i, media, sent_media)

\* C1: after the k-th _update_sent_records on a table that started empty,
\* sent_media holds min(k, 1000) rows, and they are the rows of the
\* min(k, 1000) latest timestamps (the k calls stamped their rows 1..k).
C1_RollingWindow ==
    /\ Cardinality(sent_media) = Min(clock, KeepLimit)
    /\ \A r \in sent_media : r.sent_at \in (clock - Min(clock, KeepLimit) + 1)..clock

\* C1 witness: the table is full and rows have been evicted
C1_Witness == Cardinality(sent_media) = KeepLimit /\ clock > KeepLimit

\* C2: the item send_media picks is, at the pick, not soft-deleted and has
\* no SentRecord, and the pick is None exactly when the catalog holds no
\* such item.
C2_PickIsSendable ==
    [][ (cmd.pc = "idle" /\ cmd'.pc = "replying") =>
          /\ cmd'.media # None =>
               /\ cmd'.media \in DOMAIN media
               /\ ~media[cmd'.media].is_deleted
               /\ ~\E s \in sent_media : s.media_id = cmd'.media
          /\ cmd'.media = None <=>
               ~\E i \in DOMAIN media :
                   ~media[i].is_deleted /\ ~\E s \in sent_media : s.media_id = i
      ]_vars

\* C2 witness: an item was picked while another item, not soft-deleted, has
\* a SentRecord
C2_Witness ==
    /\ cmd.pc = "replying"
    /\ cmd.media # None
    /\ \E i \in DOMAIN media :
         i # cmd.media /\ ~media[i].is_deleted /\ \E s \in sent_media : s.media_id = i

\* C3 as claimed: between two cleanups no media id is transmitted twice.
C3_NeverTwice ==
    \A i, j \in DOMAIN sent_log : sent_log[i] = sent_log[j] => i = j

\* C3 amended: between two cleanups, two transmissions of the same media id
\* lie more than the retention limit apart: an id is not returned again
\* before `limit` other sends have pushed its SentRecord out of sent_media.
C3_NoRepeatWithinWindow ==
    \A i, j \in DOMAIN sent_log :
        (i < j /\ sent_log[i] = sent_log[j]) => j - i > SmallLimit

\* C3 witness: an id has been transmitted again after its record was evicted
C3_Witness ==
    \E i, j \in DOMAIN sent_log : i < j /\ sent_log[i] = sent_log[j]

\* C4: when scan_files returns, the selectable items are exactly the items
\* whose path was a regular file in the scanned directory, with a media
\* suffix and no blacklisted substring, and that have no SentRecord.
C4_SelectableAfterScan ==
    [][ outcome' = "scan_ok" =>
          \A i \in DOMAIN media' :
              SelectableIn(i, media', sent_media') <=>
                  /\ media'[i].path \in fs
                  /\ Lower(media'[i].path.ext) \in valid_ext
                  /\ ~\E b \in blacklist : Contains(media'[i].path, b)
                  /\ ~\E s \in sent_media' : s.media_id = i
      ]_vars

\* C4 witness: a scan returned, leaving a selectable item and a soft-deleted
\* one, with files in the directory the filter rejects
C4_Witness ==
    /\ outcome = "scan_ok"
    /\ \E i \in DOMAIN media : Selectable(i)
    /\ \E i \in DOMAIN media : media[i].is_deleted
    /\ cmd.pc = "sending"

\* C5: a send_media call whose transmission fails changes neither table,
\* ends (no second attempt), and leaves the item as sendable as it was.
C5_FailedSendChangesNothing ==
    [][ outcome' = "send_failed" =>
          /\ media' = media
          /\ sent_media' = sent_media
          /\ cmd'.pc = "idle"
          /\ Selectable(cmd.media) => SelectableIn(cmd.media, media', sent_media')
      ]_vars

\* C5 witness: a transmission has failed and the item can be picked again
C5_Witness ==
    /\ outcome = "send_failed"
    /\ \E i \in DOMAIN media : Selectable(i)
    /\ sent_media # {}

\* C6 as claimed: a scheduled send_media that found a sendable item has
\* transmitted it and written its SentRecord.
C6_RotationSends ==
    (rot_log.ran /\ rot_log.picked # None) =>
        /\ rot_log.transmitted
        /\ \E s \in sent_media : s.media_id = rot_log.picked

\* C7 as claimed: at most two rotation sends are in progress on the loop.
C7_AtMostTwoSends == SendsOnLoop <= RotMaxInstances

\* C7 amended: at most two instances of the job function _wrap_send_media
\* run at a time, a firing that meets two running instances starts nothing,
\* and a send is put on the loop only by an instance that then ends.
C7_AtMostTwoInstances ==
    /\ [](rot_instances \in 0..RotMaxInstances)
    /\ [][ /\ rot_instances >= RotMaxInstances => rot_instances' <= rot_instances
           /\ SendsOnLoop' > SendsOnLoop =>
                rot_instances \in 1..RotMaxInstances /\ rot_instances' = rot_instances - 1
       ]_vars

\* C7 witness: two instances run while more than two sends wait on the loop
C7_Witness == rot_instances = RotMaxInstances /\ SendsOnLoop > RotMaxInstances

\* C8 as claimed: at most one maintenance run is executing or pending on
\* the loop.
C8_AtMostOneRun == DailyOnLoop <= 1

\* C8 amended: at most one instance of the job function
\* _execute_daily_tasks runs at a time, and a maintenance coroutine is put
\* on the loop only by a firing that found no instance running.
C8_AtMostOneInstance ==
    /\ [](daily_instances \in 0..DailyMaxInstances)
    /\ [][ DailyOnLoop' > DailyOnLoop =>
             daily_instances = 0 /\ daily_instances' = 1 /\ DailyOnLoop' = DailyOnLoop + 1
       ]_vars

\* C8 witness: the one instance waits for its run, which is executing
C8_Witness == daily_instances = DailyMaxInstances /\ running = "daily" /\ IsAwaited

\* the step in which the caller's wait ends though no run has finished
TimeoutStep ==
    daily_wait /\ ~daily_wait' /\ outcome' \notin {"scan_ok", "scan_raised"}

\* C9: when the wait times out the job function ends and its instance is
\* over, the coroutine stays on the loop, and a run that has begun leaves
\* the loop only by scan_files returning or raising.
C9_TimeoutAbandons ==
    [][ /\ TimeoutStep =>
             /\ daily_instances' = daily_instances - 1
             /\ loop_q' = loop_q
             /\ running' = running
        /\ running = "daily" =>
             running' = "daily" \/ outcome' \in {"scan_ok", "scan_raised"}
      ]_vars

\* C9 witness: the caller has given up and its run is executing
C9_Witness == running = "daily" /\ ~daily_wait /\ daily_instances = 0

\* C10: with nothing but abandoned runs on the loop, the next daily firing
\* passes the max_instances check and submits its coroutine.
C10_NextFiringProceeds ==
    (LoopIsRunning /\ ~daily_wait /\ DailyOnLoop >= 1 /\ Len(loop_q) < MaxQueue) =>
        ENABLED (DailyFire(MaxQueue) /\ daily_wait' /\ DailyOnLoop' = DailyOnLoop + 1)

\* C10 witness: a firing went ahead behind an abandoned run
C10_Witness == daily_wait /\ DailyOnLoop = 2

\* C11: when scan_files returns, sent_media is empty and every SentRecord
\* that was there has been deleted, however many renames went through
\* (all, some or none); a file that is not the file of a SentRecord is
\* still there, and a sent file that is gone has its renamed name in the
\* directory unless that name was a sent file too and was renamed in its
\* turn.
C11_CleanupUnconditional ==
    [][ outcome' = "scan_ok" =>
          LET joined == sent_files(media', sent_media)
          IN  /\ sent_media' = {}
              /\ cleanup_log'.deleted = Cardinality(sent_media)
              /\ cleanup_log'.renamed \in 0..Cardinality(joined)
              /\ Cardinality((joined \cap fs) \ fs') <= cleanup_log'.renamed
              /\ fs \ joined \subseteq fs'
              /\ \A p \in (joined \cap fs) \ fs' :
                    Renamed(p) \in fs' \/ Renamed(p) \in joined
      ]_vars

\* C11 witness: a scan returned that found two SentRecords whose files
\* were both there, renamed the file of one and failed on the other's
C11_Witness ==
    /\ outcome = "scan_ok"
    /\ cleanup_log = [renamed |-> 1, deleted |-> 2]
    /\ sent_media = {}
    /\ \E i, j \in DOMAIN media :
         /\ i # j
         /\ media[i].path \in fs
         /\ media[j].path \notin fs /\ Renamed(media[j].path) \in fs
         /\ Cardinality(fs \ OtherFiles) = 2

\* C12 as claimed: a unit of work that fails partway commits none of its
\* writes: a scan_files call that raises leaves both tables as they were.
C12_FailedScanWritesNothing ==
    [][ outcome' = "scan_raised" => media' = media /\ sent_media' = sent_media ]_vars

\* entry k of text_schedules has all it takes: its keys and a schedule
\* string the parser takes
WellFormed(k) ==
    /\ setup.config[k].has_schedule
    /\ setup.config[k].has_content
    /\ parse_schedule(setup.config[k].schedule).ok

\* the jobs registered for entry k
JobsOf(k) ==
    { j \in DOMAIN setup.jobs :
        setup.jobs[j].kind = "text_schedule" /\ setup.jobs[j].entry = k }

\* _setup_jobs is over, one way or the other
SetupOver == setup.pc \in {"done", "aborted"}

IsTime(t) ==
    /\ Len(t) = 5
    /\ t[3] = ":"
    /\ \A i \in {1, 2, 4, 5} : IsDigit(t[i])
    /\ Value(<<t[1], t[2]>>) <= 23
    /\ Value(<<t[4], t[5]>>) <= 59

\* the string is `day HH:MM`
InDayForm(s) == Len(s) = 9 /\ SubSeq(s, 1, 4) = DayPrefix /\ IsTime(SubSeq(s, 5, 9))

\* the string is `week D HH:MM` with D in 0..6
InWeekForm(s) ==
    /\ Len(s) = 12
    /\ SubSeq(s, 1, 5) = WeekPrefix
    /\ IsDigit(s[6]) /\ DigitVal(s[6]) <= 6
    /\ s[7] = " "
    /\ IsTime(SubSeq(s, 8, 12))

\* a crontab field of numbers: `*`, or a number from lo to hi
IsField(tok, lo, hi) ==
    tok = <<"*">> \/ (AllDigits(tok) /\ Value(tok) \in lo..hi)

\* the string is `cron ` and five fields with one blank between them
InCronForm(s) ==
    /\ Len(s) > 5
    /\ SubSeq(s, 1, 5) = CronPrefix
    /\ LET f == split_all(SubSeq(s, 6, Len(s)), " ")
       IN  /\ Len(f) = 5
           /\ IsField(f[1], 0, 59) /\ IsField(f[2], 0, 23) /\ IsField(f[3], 1, 31)
           /\ IsField(f[4], 1, 12) /\ IsField(f[5], 0, 6)

InGrammar(s) == InDayForm(s) \/ InWeekForm(s) \/ InCronForm(s)

FieldValue(tok) == IF tok = <<"*">> THEN Star ELSE Value(tok)

\* the trigger the grammar gives a string of one of its forms
Expected(s) ==
    IF InDayForm(s)
    THEN Trigger(Value(SubSeq(s, 8, 9)), Value(SubSeq(s, 5, 6)), Star, Star, Star)
    ELSE IF InWeekForm(s)
    THEN Trigger(Value(SubSeq(s, 11, 12)), Value(SubSeq(s, 8, 9)), Star, Star,
                 DigitVal(s[6]))
    ELSE LET f == split_all(SubSeq(s, 6, Len(s)), " ")
         IN  Trigger(FieldValue(f[1]), FieldValue(f[2]), FieldValue(f[3]),
                     FieldValue(f[4]), FieldValue(f[5]))

\* the triggers of the jobs registered for entry k
TriggersOf(k) == { setup.jobs[j].trigger : j \in JobsOf(k) }

\* C14 as claimed: a text schedule gets a job exactly when its string is of
\* one of the three forms, and then the job has the trigger the form
\* stands for.
C14_ExactlyTheGrammar ==
    setup.pc = "done" =>
        \A k \in DOMAIN setup.config :
            /\ JobsOf(k) # {} <=> InGrammar(setup.config[k].schedule)
            /\ InGrammar(setup.config[k].schedule) =>
                 TriggersOf(k) = {Expected(setup.config[k].schedule)}

\* C14 amended: a string of one of the three forms gets a job with the
\* trigger the form stands for (the days counted from Monday = 0); a string
\* with an unknown prefix, a wrong number of fields, a time that is no two
\* numbers or is out of range, or a day number past 6 gets none and is
\* logged; a job is only ever registered for a string that starts with
\* `day `, `week ` or `cron `, and its trigger's fields are in range.  But
\* strings outside the grammar get a job too: `week` with a weekday name,
\* a time not written with two digits each, a time after a second blank.
C14_GrammarAndMore ==
    setup.pc = "done" =>
        \A k \in DOMAIN setup.config :
            LET s == setup.config[k].schedule
            IN  /\ InGrammar(s) => TriggersOf(k) = {Expected(s)}
                /\ s \in BadSamples => JobsOf(k) = {} /\ k \in setup.skipped
                /\ JobsOf(k) # {} =>
                     /\ \E p \in {DayPrefix, WeekPrefix, CronPrefix} : StartsWith(s, p)
                     /\ \A t \in TriggersOf(k) :
                          /\ t.ok
                          /\ t.minute \in {Star} \cup 0..59
                          /\ t.hour \in {Star} \cup 0..23
                          /\ t.day \in {Star} \cup 1..31
                          /\ t.month \in {Star} \cup 1..12
                          /\ t.day_of_week \in {Star} \cup 0..6
                /\ s \in OffGrammarSamples => ~InGrammar(s) /\ JobsOf(k) # {}

\* C14 witness: startup registered a Monday 08:00 job for `week 0 08:00`
\* and skipped `bogus`
C14_Witness ==
    /\ setup.pc = "done"
    /\ Len(setup.config) = 2
    /\ setup.config[1].schedule = WeekText(0, 8, 0)
    /\ TriggersOf(1) = {Trigger(0, 8, Star, Star, 0)}
    /\ setup.config[2].schedule = <<"b", "o", "g", "u", "s">>
    /\ setup.skipped = {2}

\* what the caller of send_media gets when the item was transmitted and
\* recorded, and when the transmission failed (ChannelDone)
ResultWhenSent == send_media_returns(TRUE)

\* C15 as claimed: the caller of send_media can tell the three outcomes
\* apart: what it gets for `empty` (return value and reply) is not what it
\* gets for a send that went through or for one that failed.
C15_EmptyIsTold ==
    outcome = "empty" =>
        /\ send_result.returned # "None" \/ send_result.reply # ReplySent
        /\ send_result # ResultWhenSent

\* C16: a row of media is never removed and never changes its id or path;
\* is_deleted goes from false to true only, and only in a scan_files call
\* that returns and whose listing does not hold the row's path; every
\* SentRecord refers to a row of media.
C16_RowsKept ==
    /\ [](\A s \in sent_media : s.media_id \in DOMAIN media)
    /\ [][ /\ Len(media') >= Len(media)
           /\ \A i \in DOMAIN media :
                /\ media'[i].path = media[i].path
                /\ media[i].is_deleted => media'[i].is_deleted
                /\ (~media[i].is_deleted /\ media'[i].is_deleted) =>
                     /\ outcome' = "scan_ok"
                     /\ media[i].path \notin current_files(fs)
       ]_vars

\* C16 witness: a SentRecord refers to a row that a scan has soft-deleted
\* since it was picked, beside a row that is not deleted
C16_Witness ==
    /\ \E i \in DOMAIN media :
         media[i].is_deleted /\ \E s \in sent_media : s.media_id = i
    /\ \E i \in DOMAIN media : ~media[i].is_deleted

\* C17: a cleanup_sent_files call clears sent_media and leaves media as it
\* is; a call made when sent_media is empty, and so the second of two calls
\* in a row, renames no file, deletes no row, changes neither the directory
\* nor the tables, and returns.
C17_CleanupIdempotent ==
    [][ outcome' \in {"cleanup_ok", "cleanup_again"} =>
          /\ sent_media' = {}
          /\ media' = media
          /\ cleanup_log'.deleted = Cardinality(sent_media)
          /\ (sent_media = {} \/ outcome' = "cleanup_again") =>
               /\ cleanup_log' = [renamed |-> 0, deleted |-> 0]
               /\ fs' = fs
               /\ sent_media = {}
      ]_vars

\* C17 witness: the second of two cleanups in a row has returned; the first
\* had renamed the file of a sent item
C17_Witness ==
    /\ outcome = "cleanup_again"
    /\ cleanup_log = [renamed |-> 0, deleted |-> 0]
    /\ \E i \in DOMAIN media :
         /\ ~media[i].is_deleted
         /\ media[i].path \notin fs
         /\ Renamed(media[i].path) \in fs

\* the paths of the rows of m that are not deleted
LivePaths(m) == { m[i].path : i \in { j \in DOMAIN m : ~m[j].is_deleted } }

\* C18 as claimed: the reconcile step of every scan completes, whatever the
\* catalog and the listing, and leaves the paths that are not deleted equal
\* to the listing, a path that was soft-deleted and is back included.
C18_ReconcileCompletes ==
    [][ outcome' \in {"scan_ok", "scan_raised"} =>
          /\ outcome' = "scan_ok"
          /\ LivePaths(media') = current_files(fs)
      ]_vars

\* C19: whatever send_media executions overlap (a manual one suspended at
\* an await while scheduled ones run, scheduled ones one after the other),
\* no media id has two SentRecords, no media id is transmitted twice between
\* two cleanups, and two executions that picked the same item do not both
\* transmit it: the scheduled one has not transmitted.
C19_NoDoubleSend ==
    /\ \A s, t \in sent_media : s.media_id = t.media_id => s = t
    /\ \A i, j \in DOMAIN sent_log : sent_log[i] = sent_log[j] => i = j
    /\ (rot_log.ran /\ cmd.pc \in {"replying", "sending"} /\ rot_log.picked = cmd.media)
         => ~rot_log.transmitted

\* C19 witness: a scheduled send_media has just run and picked the item a
\* manual send_media, suspended in its transmission, had picked before
C19_Witness ==
    /\ cmd.pc = "sending"
    /\ outcome = "job_raised"
    /\ rot_log.ran
    /\ rot_log.picked = cmd.media
    /\ sent_media # {}

=============================================================================
